---- MODULE Spec2Model ----
(***************************************************************************)
(* Model of answer_dekeyne/dispatch_algorithm.py (class PowerDispatcher)   *)
(* and of the way app_dispatch.py drives it.                               *)
(*                                                                         *)
(* Powers (pmin, pmax, p, load, overload) are integers counting hundredths *)
(* of a MWh, so that the 0.1 grid of the requests is the multiples of 10   *)
(* and the derated power of a wind turbine (pmax * wind / 100, which the   *)
(* code does not round) is still an integer.  Efficiencies are integer     *)
(* percents, fuel prices integer tenths of euro.  The input sets below     *)
(* only hold values whose differences never fall exactly between two grid  *)
(* points, where the result of Python's round on binary floats depends on  *)
(* the representation error of the operands.                               *)
(***************************************************************************)
EXTENDS Integers, Sequences, FiniteSets, TLC

VARIABLES
    plants,             \* self.plants: payload['powerplants']
    fuels,              \* self.fuels: payload['fuels']
    carbon_price,       \* self.carbon_price: << >> for None, <<v>> otherwise
    required_load,      \* self.required_load
    power_plants,       \* the merit-ordered frame handed to dispatch_load
    dispatch_build,     \* self.dispatch_build: rows (name, p, pmin)
    current_load,       \* self.current_load
    pc,                 \* which method runs next / how the last one ended
    i,                  \* rows of power_plants consumed by the running loop
    remaining_load,     \* local of dispatch_load, line 97
    power,              \* local of dispatch_load, line 99
    overload,           \* local of dispatch_load, line 99
    new_dispatch_build, \* local of handle_overload, in walk order
    log,                \* which branch the last loop iteration logged
    returned            \* what the calls of dispatch_load gave their caller

vars ==
    <<plants, fuels, carbon_price, required_load, power_plants, dispatch_build,
      current_load, pc, i, remaining_load, power, overload,
      new_dispatch_build, log, returned>>

----------------------------------------------------------------------------
(* Bounds and input sets                                                   *)

MaxPlants ==
    3

MaxRuns ==
    2

PowerValues ==
    {0, 20, 40}

LoadValues ==
    {0, 10, 20, 30, 40, 50}

WindValues ==
    {30, 50, 100}

EfficiencyValues ==
    {0, 50, 100}

KnownTypes ==
    {"gasfired", "turbojet", "windturbine"}

TypeValues ==
    KnownTypes \cup {"mock"}

PlantName(n) ==
    <<"plant", n>>

----------------------------------------------------------------------------
(* Helpers for sequences and numbers                                       *)

Abs(x) ==
    IF x < 0 THEN -x ELSE x

\* round(x, 1): the nearest multiple of 0.1, an exact tie going to the even one
Round1(x) ==
    LET q == Abs(x) \div 10
        r == Abs(x) % 10
        m == IF r < 5 THEN q
             ELSE IF r > 5 THEN q + 1
             ELSE IF q % 2 = 0 THEN q ELSE q + 1
    IN  IF x < 0 THEN -(10 * m) ELSE 10 * m

Reverse(s) ==
    [k \in 1..Len(s) |-> s[Len(s) + 1 - k]]

RECURSIVE SumP(_)
\* self.dispatch_build['p'].sum()
SumP(build) ==
    IF build = << >> THEN 0 ELSE build[1].p + SumP(Tail(build))

----------------------------------------------------------------------------
(* Merit order                                                             *)

\* A merit value price / efficiency [* carbon_price] is kept as the fraction
\* num / den; err stands for the ZeroDivisionError of the division.
get_merit_gasfired(efficiency) ==
    IF efficiency = 0 THEN [err |-> TRUE, num |-> 0, den |-> 1]
    ELSE IF carbon_price = << >>
         THEN [err |-> FALSE, num |-> 100 * fuels.gas, den |-> efficiency]
         ELSE [err |-> FALSE, num |-> 100 * fuels.gas * carbon_price[1],
               den |-> efficiency]

get_merit_turbojet(efficiency) ==
    IF efficiency = 0 THEN [err |-> TRUE, num |-> 0, den |-> 1]
    ELSE IF carbon_price = << >>
         THEN [err |-> FALSE, num |-> 100 * fuels.kerosine, den |-> efficiency]
         ELSE [err |-> FALSE, num |-> 100 * fuels.kerosine * carbon_price[1],
               den |-> efficiency]

get_merit_windturbine ==
    [err |-> FALSE, num |-> 0, den |-> 1]

\* get_merit_plant with the turbojet entry of the table bound to the wind method
get_merit_plant_turbojet_as_wind(plant) ==
    IF plant.type = "gasfired" THEN get_merit_gasfired(plant.efficiency)
    ELSE get_merit_windturbine

\* The ZeroDivisionError of the merit method is re-raised as a ValueError
get_merit_plant(plant) ==
    IF plant.type = "gasfired" THEN get_merit_gasfired(plant.efficiency)
    ELSE IF plant.type = "turbojet" THEN get_merit_turbojet(plant.efficiency)
    ELSE get_merit_windturbine

MeritLess(a, b) ==
    a.num * b.den < b.num * a.den

RECURSIVE InsertByMerit(_, _)
\* x goes behind every row whose merit is not above its own
InsertByMerit(frame, x) ==
    IF frame = << >> THEN <<x>>
    ELSE IF MeritLess(x.merit_order, frame[1].merit_order) THEN <<x>> \o frame
    ELSE <<frame[1]>> \o InsertByMerit(Tail(frame), x)

RECURSIVE sort_values(_)
\* DataFrame.sort_values('merit_order'): rows of equal merit keep their order
\* (the frames of a request are short enough for the sort to be an insertion sort)
sort_values(frame) ==
    IF frame = << >> THEN << >>
    ELSE InsertByMerit(sort_values(SubSeq(frame, 1, Len(frame) - 1)),
                       frame[Len(frame)])

\* The ValueError of define_merit_orders, from either of its two raises
MeritError(payload) ==
    \E k \in 1..Len(payload) :
        \/ payload[k].type \notin KnownTypes
        \/ get_merit_plant(payload[k]).err

define_merit_orders(payload) ==
    IF MeritError(payload) THEN [error |-> TRUE, frame |-> << >>]
    ELSE [error |-> FALSE,
          frame |-> sort_values(
              [k \in 1..Len(payload) |->
                  [name |-> payload[k].name, type |-> payload[k].type,
                   efficiency |-> payload[k].efficiency,
                   pmin |-> payload[k].pmin, pmax |-> payload[k].pmax,
                   merit_order |-> get_merit_plant(payload[k])]])]

----------------------------------------------------------------------------
(* Load of one plant                                                       *)

\* pmax * wind / 100 is exact for the PowerValues and WindValues above
find_max_power(plant) ==
    IF plant.type = "windturbine"
    THEN (plant.pmax * fuels.wind) \div 100
    ELSE plant.pmax

\* find_load_for_plant testing the minimum before the maximum
find_load_for_plant_min_first(remaining, plant) ==
    IF remaining = 0 THEN <<0, 0>>
    ELSE LET maximal_power == find_max_power(plant)
             minimal_power == plant.pmin
         IN  IF remaining < minimal_power
             THEN <<minimal_power, Round1(minimal_power - remaining)>>
             ELSE IF remaining >= maximal_power THEN <<maximal_power, 0>>
                  ELSE <<remaining, 0>>

find_load_for_plant(remaining, plant) ==
    IF remaining = 0 THEN <<0, 0>>
    ELSE LET maximal_power == find_max_power(plant)
             minimal_power == plant.pmin
         IN  IF remaining >= maximal_power THEN <<maximal_power, 0>>
             ELSE IF remaining < minimal_power
                  THEN <<minimal_power, Round1(minimal_power - remaining)>>
                  ELSE <<remaining, 0>>

----------------------------------------------------------------------------
(* Overload                                                                *)

compute_power_reduction(previous_plant, over) ==
    LET remaining_power == Round1(previous_plant.p - over)
    IN  IF remaining_power <= 0
        THEN <<[name |-> previous_plant.name, p |-> 0,
                pmin |-> previous_plant.pmin], -1 * remaining_power>>
        ELSE IF remaining_power >= previous_plant.pmin
        THEN <<[name |-> previous_plant.name, p |-> remaining_power,
                pmin |-> previous_plant.pmin], 0>>
        ELSE <<[name |-> previous_plant.name, p |-> previous_plant.pmin,
                pmin |-> previous_plant.pmin],
               Round1(previous_plant.pmin - remaining_power)>>

RECURSIVE Walk(_, _, _)
\* The loop of handle_overload over dispatch_build[::-1], from the last row
\* down to row j: the rows appended to new_dispatch_build and the overload
\* carried out of row j
Walk(build, j, over) ==
    IF j > Len(build) THEN [new |-> << >>, overload |-> over]
    ELSE LET before == Walk(build, j + 1, over)
             step == compute_power_reduction(build[j], before.overload)
         IN  [new |-> Append(before.new, step[1]), overload |-> step[2]]

\* handle_overload without the [::-1] of line 164
handle_overload_unreversed(build, plant, over) ==
    LET walk == Walk(build, 1, over)
    IN  IF walk.overload = 0
        THEN Append(walk.new,
                    [name |-> plant.name, p |-> plant.pmin, pmin |-> plant.pmin])
        ELSE Append(build,
                    [name |-> plant.name, p |-> 0, pmin |-> plant.pmin])

\* handle_overload keeping the reduced rows when the plant is kept off
handle_overload_keeps_reductions(build, plant, over) ==
    LET walk == Walk(build, 1, over)
    IN  IF walk.overload = 0
        THEN Append(Reverse(walk.new),
                    [name |-> plant.name, p |-> plant.pmin, pmin |-> plant.pmin])
        ELSE Append(Reverse(walk.new),
                    [name |-> plant.name, p |-> 0, pmin |-> plant.pmin])

\* handle_overload giving the plant its pmin in both branches
handle_overload_always_on(build, plant, over) ==
    LET walk == Walk(build, 1, over)
    IN  IF walk.overload = 0
        THEN Append(Reverse(walk.new),
                    [name |-> plant.name, p |-> plant.pmin, pmin |-> plant.pmin])
        ELSE Append(build,
                    [name |-> plant.name, p |-> plant.pmin, pmin |-> plant.pmin])

handle_overload(build, plant, over) ==
    LET walk == Walk(build, 1, over)
    IN  IF walk.overload = 0
        THEN Append(Reverse(walk.new),
                    [name |-> plant.name, p |-> plant.pmin, pmin |-> plant.pmin])
        ELSE Append(build,
                    [name |-> plant.name, p |-> 0, pmin |-> plant.pmin])

----------------------------------------------------------------------------
(* Result                                                                  *)

\* sort_results without the test of line 205
sort_results_unchecked(build, load_now, load_required) ==
    [error |-> FALSE,
     plan |-> [k \in 1..Len(build) |->
                  [name |-> build[k].name, p |-> build[k].p]]]

sort_results(build, load_now, load_required) ==
    IF load_now # load_required THEN [error |-> TRUE, plan |-> << >>]
    ELSE [error |-> FALSE,
          plan |-> [k \in 1..Len(build) |->
                       [name |-> build[k].name, p |-> build[k].p]]]

----------------------------------------------------------------------------
(* Requests                                                                *)

\* Plants with 0 <= pmin <= pmax
Units(types, efficiencies, powers) ==
    {u \in [type : types, efficiency : efficiencies, pmin : powers, pmax : powers] :
        u.pmin <= u.pmax}

Payloads(units) ==
    UNION {[1..n -> units] : n \in 1..MaxPlants}

Named(payload) ==
    [k \in 1..Len(payload) |->
        [name |-> PlantName(k), type |-> payload[k].type,
         efficiency |-> payload[k].efficiency,
         pmin |-> payload[k].pmin, pmax |-> payload[k].pmax]]

\* PowerDispatcher.__init__ on a payload, no method called yet
Constructed ==
    /\ dispatch_build = << >>
    /\ current_load = 0
    /\ power_plants = << >>
    /\ i = 0
    /\ remaining_load = 0
    /\ power = 0
    /\ overload = 0
    /\ new_dispatch_build = << >>
    /\ log = "none"
    /\ returned = << >>

----------------------------------------------------------------------------
(* One request: app_dispatch builds a PowerDispatcher, calls                *)
(* define_merit_orders, then dispatch_load on the frame it returned         *)

\* The prices of the example payload (13.4, 50.8 and 20, in tenths)
Fuels(wind) ==
    [gas |-> 134, kerosine |-> 508, co2 |-> 200, wind |-> wind]

\* After construction, before define_merit_orders: any type, any efficiency
InitMerit ==
    /\ plants \in {Named(q) : q \in Payloads(Units(TypeValues, EfficiencyValues, {20}))}
    /\ fuels = Fuels(100)
    /\ carbon_price \in {<< >>, <<60>>}
    /\ required_load = 20
    /\ pc = "define_merit_orders"
    /\ Constructed

define_merit_orders_raise ==
    /\ pc = "define_merit_orders"
    /\ define_merit_orders(plants).error
    /\ pc' = "raised"
    /\ UNCHANGED <<plants, fuels, carbon_price, required_load, power_plants,
                   dispatch_build, current_load, i, remaining_load, power,
                   overload, new_dispatch_build, log, returned>>

define_merit_orders_return ==
    /\ pc = "define_merit_orders"
    /\ ~define_merit_orders(plants).error
    /\ power_plants' = define_merit_orders(plants).frame
    /\ pc' = "dispatch_load"
    /\ UNCHANGED <<plants, fuels, carbon_price, required_load,
                   dispatch_build, current_load, i, remaining_load, power,
                   overload, new_dispatch_build, log, returned>>

NextMerit ==
    \/ define_merit_orders_raise
    \/ define_merit_orders_return

SpecMerit ==
    InitMerit /\ [][NextMerit]_vars

\* dispatch_load is about to run on the frame define_merit_orders returned
\* for a payload of well-formed plants
Init ==
    /\ plants \in {Named(q) : q \in Payloads(Units({"gasfired", "windturbine"}, {50}, PowerValues))}
    /\ fuels \in {Fuels(w) : w \in WindValues}
    /\ carbon_price = << >>
    /\ required_load \in LoadValues
    /\ pc = "dispatch_load"
    /\ dispatch_build = << >>
    /\ current_load = 0
    /\ power_plants = define_merit_orders(plants).frame
    /\ i = 0
    /\ remaining_load = 0
    /\ power = 0
    /\ overload = 0
    /\ new_dispatch_build = << >>
    /\ log = "none"
    /\ returned = << >>

\* Lines 96-99 of an iteration of the loop of dispatch_load
Iteration ==
    /\ pc = "dispatch_load"
    /\ i < Len(power_plants)
    /\ i' = i + 1
    /\ current_load' = SumP(dispatch_build)
    /\ remaining_load' = Round1(required_load - current_load')
    /\ power' = find_load_for_plant(remaining_load', power_plants[i'])[1]
    /\ overload' = find_load_for_plant(remaining_load', power_plants[i'])[2]
    /\ UNCHANGED <<plants, fuels, carbon_price, required_load, power_plants,
                   pc, returned>>

\* The plant takes its load and no row before it changes
dispatch_load_append ==
    /\ Iteration
    /\ overload' = 0
    /\ dispatch_build' = Append(dispatch_build,
           [name |-> power_plants[i'].name, p |-> power',
            pmin |-> power_plants[i'].pmin])
    /\ log' = "attributed"
    /\ UNCHANGED new_dispatch_build

\* handle_overload finds room for the plant at its pmin
dispatch_load_overload_corrected ==
    /\ Iteration
    /\ overload' # 0
    /\ Walk(dispatch_build, 1, overload').overload = 0
    /\ new_dispatch_build' = Walk(dispatch_build, 1, overload').new
    /\ dispatch_build' = handle_overload(dispatch_build, power_plants[i'], overload')
    /\ log' = "corrected"

\* handle_overload finds no room and keeps the plant off
dispatch_load_overload_failed ==
    /\ Iteration
    /\ overload' # 0
    /\ Walk(dispatch_build, 1, overload').overload # 0
    /\ new_dispatch_build' = Walk(dispatch_build, 1, overload').new
    /\ dispatch_build' = handle_overload(dispatch_build, power_plants[i'], overload')
    /\ log' = "failed"

\* Lines 112-113: the loop is over, sort_results raises
dispatch_load_raise ==
    /\ pc = "dispatch_load"
    /\ i = Len(power_plants)
    /\ current_load' = SumP(dispatch_build)
    /\ sort_results(dispatch_build, current_load', required_load).error
    /\ pc' = "raised"
    /\ returned' = Append(returned,
           sort_results(dispatch_build, current_load', required_load))
    /\ UNCHANGED <<plants, fuels, carbon_price, required_load, power_plants,
                   dispatch_build, i, remaining_load, power, overload,
                   new_dispatch_build, log>>

\* Lines 112-113: the loop is over, sort_results returns the plan
dispatch_load_return ==
    /\ pc = "dispatch_load"
    /\ i = Len(power_plants)
    /\ current_load' = SumP(dispatch_build)
    /\ ~sort_results(dispatch_build, current_load', required_load).error
    /\ pc' = "returned"
    /\ returned' = Append(returned,
           sort_results(dispatch_build, current_load', required_load))
    /\ UNCHANGED <<plants, fuels, carbon_price, required_load, power_plants,
                   dispatch_build, i, remaining_load, power, overload,
                   new_dispatch_build, log>>

Next ==
    \/ dispatch_load_append
    \/ dispatch_load_overload_corrected
    \/ dispatch_load_overload_failed
    \/ dispatch_load_raise
    \/ dispatch_load_return

Spec ==
    Init /\ [][Next]_vars

\* The caller runs dispatch_load once more on the same PowerDispatcher, with
\* the same frame: nothing of the object is reset between the calls
dispatch_load_again ==
    /\ pc \in {"returned", "raised"}
    /\ Len(returned) < MaxRuns
    /\ pc' = "dispatch_load"
    /\ i' = 0
    /\ UNCHANGED <<plants, fuels, carbon_price, required_load, power_plants,
                   dispatch_build, current_load, remaining_load, power,
                   overload, new_dispatch_build, log, returned>>

NextRerun ==
    \/ Next
    \/ dispatch_load_again

SpecRerun ==
    Init /\ [][NextRerun]_vars

\* find_load_for_plant called on its own, as the unit tests do: any plant,
\* any remaining load of the grid
InitFind ==
    /\ plants \in {Named(<<u>>) : u \in Units(KnownTypes, {50}, PowerValues)}
    /\ fuels \in {Fuels(w) : w \in WindValues}
    /\ carbon_price = << >>
    /\ required_load = 0
    /\ pc = "find_load_for_plant"
    /\ dispatch_build = << >>
    /\ current_load = 0
    /\ power_plants = define_merit_orders(plants).frame
    /\ i = 1
    /\ remaining_load \in LoadValues
    /\ power = 0
    /\ overload = 0
    /\ new_dispatch_build = << >>
    /\ log = "none"
    /\ returned = << >>

find_load_for_plant_call ==
    /\ pc = "find_load_for_plant"
    /\ power' = find_load_for_plant(remaining_load, power_plants[1])[1]
    /\ overload' = find_load_for_plant(remaining_load, power_plants[1])[2]
    /\ pc' = "found"
    /\ UNCHANGED <<plants, fuels, carbon_price, required_load, power_plants,
                   dispatch_build, current_load, i, remaining_load,
                   new_dispatch_build, log, returned>>

NextFind ==
    find_load_for_plant_call

SpecFind ==
    InitFind /\ [][NextFind]_vars

----------------------------------------------------------------------------
(* Claims                                                                  *)

LastPlan ==
    returned[Len(returned)].plan

\* C1: whenever dispatch_load returns a plan, the p of its entries add up to
\* the required load exactly.
C1_SumInvariant ==
    pc = "returned" => SumP(LastPlan) = required_load

\* A plan came back whose load is shared by at least two plants
C1_Witness ==
    /\ pc = "returned"
    /\ required_load > 0
    /\ Cardinality({k \in 1..Len(LastPlan) : LastPlan[k].p > 0}) >= 2

\* C2: every entry of a returned plan has 0 <= p <= pmax of its plant, and
\* p = 0 or p >= pmin of its plant.
C2_BoundsInvariant ==
    pc = "returned" =>
        \A k \in 1..Len(LastPlan) :
            /\ 0 <= LastPlan[k].p
            /\ LastPlan[k].p <= power_plants[k].pmax
            /\ LastPlan[k].p = 0 \/ LastPlan[k].p >= power_plants[k].pmin

\* The first plant of the merit order wants more than the whole load, so
\* handle_overload runs on an empty dispatch_build
FirstPlantOverloaded ==
    /\ required_load > 0
    /\ power_plants[1].pmin > required_load
    /\ find_load_for_plant(required_load, power_plants[1])[2] # 0

\* C3, as stated: when the first plant of the merit order has pmin above the
\* required load and is appended at p = 0, dispatch_load never returns a
\* plan, whatever plants follow.
C3_AlwaysUnreachable ==
    FirstPlantOverloaded => pc # "returned"

\* C3, amended: when the first plant of the merit order has pmin above the
\* required load and goes to handle_overload, it is appended at p = 0 and
\* stays at p = 0 to the end of the run; dispatch_load raises when it is the
\* only plant (with plants behind it the load can still be met).
C3_FirstPlantKeptOff ==
    (FirstPlantOverloaded /\ i >= 1) =>
        /\ dispatch_build[1].p = 0
        /\ Len(power_plants) = 1 => pc # "returned"

\* A plan came back although the first plant had to be kept off
C3_Witness ==
    /\ FirstPlantOverloaded
    /\ pc = "returned"
    /\ LastPlan[1].p = 0

RECURSIVE TotalMaxPower(_)
TotalMaxPower(frame) ==
    IF frame = << >> THEN 0
    ELSE find_max_power(frame[1]) + TotalMaxPower(Tail(frame))

\* C4: when the required load is above the sum of the maximal powers of the
\* plants (pmax, derated by the wind for a wind turbine), dispatch_load
\* returns no plan.
C4_InsufficientCapacity ==
    required_load > TotalMaxPower(power_plants) => pc # "returned"

\* C5: a second run of dispatch_load on the same object, with the same frame
\* and load, returns the plan the first run returned.
C5_SecondRunIdentical ==
    (Len(returned) >= 2 /\ ~returned[1].error /\ ~returned[2].error) =>
        returned[2].plan = returned[1].plan

\* C6: a returned plan has exactly one {name, p} entry per plant of the frame
\* passed in, in the order of that frame (wind turbines, of merit 0, before
\* the thermal plants), overload resolutions included.
C6_OnePerPlantInMeritOrder ==
    pc = "returned" =>
        /\ Len(LastPlan) = Len(power_plants)
        /\ \A k \in 1..Len(LastPlan) :
              /\ LastPlan[k].name = power_plants[k].name
              /\ DOMAIN LastPlan[k] = {"name", "p"}
        /\ \A k \in 1..Len(LastPlan), m \in 1..Len(LastPlan) :
              (k < m /\ power_plants[m].type = "windturbine")
                  => power_plants[k].type = "windturbine"

\* A plan of three plants came back right after an overload was corrected
C6_Witness ==
    /\ pc = "returned"
    /\ log = "corrected"
    /\ Len(LastPlan) = 3
    /\ \E k \in 1..2 : LastPlan[k].p # new_dispatch_build[k].p

InvalidPlant(plant) ==
    \/ plant.type \in {"gasfired", "turbojet"} /\ plant.efficiency = 0
    \/ plant.type \notin {"gasfired", "turbojet", "windturbine"}

\* C7: a request holding a thermal plant of efficiency 0 or a plant of unknown
\* type makes define_merit_orders raise, wherever that plant stands; nothing
\* is allocated and no plan is produced.
C7_InvalidPlantRaises ==
    (pc # "define_merit_orders" /\ \E k \in 1..Len(plants) : InvalidPlant(plants[k])) =>
        /\ pc = "raised"
        /\ power_plants = << >>
        /\ dispatch_build = << >>
        /\ returned = << >>

\* define_merit_orders raised on a request whose only bad plant is the last
\* of three, a turbojet of efficiency 0
C7_Witness ==
    /\ pc = "raised"
    /\ Len(plants) = 3
    /\ plants[3].type = "turbojet" /\ plants[3].efficiency = 0
    /\ ~InvalidPlant(plants[1]) /\ ~InvalidPlant(plants[2])

PriorRows ==
    SubSeq(dispatch_build, 1, Len(dispatch_build) - 1)

\* C8, as stated: when handle_overload fails, the plant is appended at p = 0
\* and the rows before it hold the reduced p computed during the walk.
C8_ReductionsKept ==
    log = "failed" =>
        /\ dispatch_build[Len(dispatch_build)].p = 0
        /\ PriorRows = Reverse(new_dispatch_build)

\* C8, amended: when handle_overload fails, the plant is appended at p = 0 and
\* the rows before it keep the p they had before the walk; the reductions
\* computed during the walk are dropped with new_dispatch_build.
C8_ReductionsDropped ==
    [][(pc = "dispatch_load" /\ i' = i + 1 /\ log' = "failed") =>
          /\ Len(dispatch_build') = Len(dispatch_build) + 1
          /\ SubSeq(dispatch_build', 1, Len(dispatch_build)) = dispatch_build
          /\ dispatch_build'[Len(dispatch_build')].p = 0]_vars

\* handle_overload failed after a walk that took power off some row
C8_Witness ==
    /\ log = "failed"
    /\ dispatch_build[Len(dispatch_build)].p = 0
    /\ \E k \in 1..Len(PriorRows) :
          Reverse(new_dispatch_build)[k].p < PriorRows[k].p

\* The row at which the walk of handle_overload first carries no overload on
Absorbing(build, over) ==
    {j \in 1..Len(build) :
        /\ Walk(build, j, over).overload = 0
        /\ \A m \in (j + 1)..Len(build) : Walk(build, m, over).overload # 0}

\* C9: once a row visited by the walk of handle_overload brings the carried
\* overload to 0, the resolution succeeds (the plant is appended at its pmin)
\* and the rows before that row keep their p.
C9_WalkStopsWhenAbsorbed ==
    [][(pc = "dispatch_load" /\ i' = i + 1 /\ overload' # 0) =>
          \A j \in Absorbing(dispatch_build, overload') :
              /\ log' = "corrected"
              /\ dispatch_build'[Len(dispatch_build')].p = power_plants[i'].pmin
              /\ \A m \in 1..(j - 1) : dispatch_build'[m].p = dispatch_build[m].p]_vars

RowPowers ==
    LoadValues \cup {(hi * w) \div 100 : hi \in PowerValues, w \in WindValues}

InitReduce ==
    /\ plants = << >>
    /\ fuels = Fuels(100)
    /\ carbon_price = << >>
    /\ required_load = 0
    /\ pc = "compute_power_reduction"
    /\ dispatch_build \in {<<[name |-> PlantName(1), p |-> v, pmin |-> lo]>> :
                              v \in RowPowers, lo \in PowerValues}
    /\ current_load = 0
    /\ power_plants = << >>
    /\ i = 0
    /\ remaining_load = 0
    /\ power = 0
    /\ overload \in LoadValues
    /\ new_dispatch_build = << >>
    /\ log = "none"
    /\ returned = << >>

\* Lines 160-161: plant_dict, overload = compute_power_reduction(row, overload)
compute_power_reduction_call ==
    /\ pc = "compute_power_reduction"
    /\ new_dispatch_build' =
           <<compute_power_reduction(dispatch_build[1], overload)[1]>>
    /\ overload' = compute_power_reduction(dispatch_build[1], overload)[2]
    /\ pc' = "reduced"
    /\ UNCHANGED <<plants, fuels, carbon_price, required_load, power_plants,
                   dispatch_build, current_load, i, remaining_load, power,
                   log, returned>>

NextReduce ==
    compute_power_reduction_call

SpecReduce ==
    InitReduce /\ [][NextReduce]_vars

\* C11: compute_power_reduction(entry, overload) gives, with r = entry.p -
\* overload: p = 0 and the overload -r when r <= 0; p = r and no overload
\* when r >= pmin; p = pmin and the overload pmin - r otherwise.  What was
\* taken off the entry plus the overload carried on is the overload that came
\* in, and the name and the pmin of the entry are kept.
C11_ReductionCases ==
    [][(pc = "compute_power_reduction" /\ pc' = "reduced") =>
          LET entry == dispatch_build[1]
              after == new_dispatch_build'[1]
              r == entry.p - overload
          IN  /\ r <= 0 => (after.p = 0 /\ overload' = -r)
              /\ (r > 0 /\ r >= entry.pmin) => (after.p = r /\ overload' = 0)
              /\ (r > 0 /\ r < entry.pmin)
                    => (after.p = entry.pmin /\ overload' = entry.pmin - r)
              /\ (entry.p - after.p) + overload' = overload
              /\ after.name = entry.name
              /\ after.pmin = entry.pmin]_vars

\* C12: in dispatch_load the p of the rows never add up to more than the
\* required load once a plant is processed; right after handle_overload made
\* room for a plant they add up to the required load exactly, so that the
\* plant processed next (and, the sum staying there, every later one) gets
\* p = 0 and raises no overload.
C12_NeverAboveLoad ==
    [][(pc = "dispatch_load" /\ i' = i + 1) =>
          /\ SumP(dispatch_build') <= required_load
          /\ log' = "corrected" => SumP(dispatch_build') = required_load
          /\ log = "corrected" =>
                (power' = 0 /\ overload' = 0 /\ log' = "attributed")]_vars

====
